---- MODULE Spec2Model ----
(***************************************************************************)
(* Model of the mwait driver (src/mwait/main.cxx, src/mwait/include.hpp).  *)
(*                                                                         *)
(* Four sequential processes share the state:                              *)
(*   DriverEntry  (lpc)  load: host registrations, context, Worker thread  *)
(*   Worker       (wpc)  pins itself, starts Monitor, mutates the cell,    *)
(*                       writes the sentinel on unload, joins the Monitor  *)
(*   Monitor      (mpc)  MONITOR/MWAIT loop on mw::TestVariable            *)
(*   DriverUnload (upc)  sets the unload event, joins the Worker, tears    *)
(*                       the device down                                   *)
(*                                                                         *)
(* 64-bit values are kept as four 16-bit words, most significant first.    *)
(* The results of host calls (IoCreateDevice, IoCreateSymbolicLink,        *)
(* PsCreateSystemThread, PsLookupThreadByThreadId) and the value of the    *)
(* time stamp counter are inputs chosen by the environment.                *)
(***************************************************************************)
EXTENDS Integers, Sequences, FiniteSets, TLC

(* ------------------------------ bounds --------------------------------- *)

\* Running-loop iterations the Worker completes before the unload event is
\* set; after that many it polls again only once the event is set.
MaxIter == 2

\* Early exits of MWAIT that are not caused by a store (NMI, SMI, reset...).
MaxSpurious == 1

\* Processors of the machine, numbered from 0.
NumCpus == 4

(* ----------------------------- constants ------------------------------- *)

Word(n) == <<0, 0, 0, n>>

Zero == Word(0)

\* mw::MAGIC = 0xEEFFEEFFEEFFEEFF
MAGIC == <<61183, 61183, 61183, 61183>>

\* TimeStamp & 0xff
LowByte(v) == v[4] % 256

\* mw::Sleep.QuadPart, in 100 ns units (negative: relative)
Sleep == -(1 * 100 * 1000)

\* mw::NoSleep.QuadPart
NoSleep == 0

MONITOR_THREAD_CPU_AFFINITY == 1

WORKER_THREAD_CPU_AFFINITY == 4

STATUS_SUCCESS == 0

\* 0x00000102
STATUS_TIMEOUT == 258

\* 0xC0000001 as a signed 32-bit NTSTATUS
STATUS_UNSUCCESSFUL == -1073741823

NT_SUCCESS(s) == s >= 0

\* Outcomes of a host call that can fail.
HostStatuses == {STATUS_SUCCESS, STATUS_UNSUCCESSFUL}

\* Values __rdtsc() may return: low byte zero (0x0, 0x100, 0x200), low byte
\* non-zero (0x1234), and the bit pattern of the sentinel itself.
TimeStamps == {Zero, Word(256), Word(512), Word(4660), MAGIC}

Cpus == 0 .. (NumCpus - 1)

RECURSIVE Pow2(_)
Pow2(n) == IF n = 0 THEN 1 ELSE 2 * Pow2(n - 1)

\* Processors selected by a KAFFINITY mask.
CpusOf(mask) == {c \in Cpus : (mask \div Pow2(c)) % 2 = 1}

\* AffinityTargets reading the argument as a processor number, not as a mask.
AffinityTargetsAsNumber(mask, cur) == IF mask \in Cpus THEN {mask} ELSE {cur}

\* KeSetSystemAffinityThread: the thread moves to a processor of the mask;
\* a mask that selects no processor of the machine leaves it where it is.
AffinityTargets(mask, cur) == IF CpusOf(mask) = {} THEN {cur} ELSE CpusOf(mask)

\* KeWaitForSingleObject( event, ..., &mw::NoSleep )
PollEvent(signaled) == IF signaled THEN STATUS_SUCCESS ELSE STATUS_TIMEOUT

(* ------------------------------- state --------------------------------- *)

VARIABLES
    lpc,                  \* DriverEntry position
    Status,               \* DriverEntry local Status
    CreatedSymbolicLink,  \* DriverEntry local
    returnStatus,         \* value DriverEntry returns (read once lpc = "returned")
    device,               \* device object: "none" | "created" | "deleted"
    link,                 \* symbolic link: "none" | "created" | "deleted"
    deviceDeletes,        \* calls of IoDeleteDevice
    linkDeletes,          \* calls of IoDeleteSymbolicLink
    extUnload,            \* Ext->Unload is signaled
    WorkerHandle,         \* Ext->WorkerHandle: "null" | "open" | "closed"
    MonitorThreadHandle,  \* Ext->MonitorThreadHandle
    wpc,                  \* Worker position
    wStatus,              \* Worker local Status
    IsExiting,            \* Worker local
    TimeStamp,            \* Worker local
    iter,                 \* Running-loop iterations completed
    wcpu,                 \* processor the Worker runs on
    wAssert,              \* outcome of the Worker's NT_ASSERT
    MonitorThreadObject,  \* Worker local: reference held
    TestVariable,         \* mw::TestVariable, the monitored cell
    armed,                \* monitor hardware armed on the cell's line
    triggered,            \* a store hit the line since arming
    writeLog,             \* values stored to the cell, in order
    mpc,                  \* Monitor position
    MostRecentRead,       \* Monitor local
    Previous,             \* Monitor local
    InterruptsEnabled,    \* interrupt flag of the Monitor's processor
    spurious,             \* early MWAIT exits so far
    mcpu,                 \* processor the Monitor runs on
    mAssert,              \* outcome of the Monitor's NT_ASSERT
    samples,              \* Monitor reads of the cell: [val, at]
    reports,              \* "Store detected" log lines: [prev, new, sample]
    upc,                  \* DriverUnload position
    uStatus,              \* DriverUnload local Status
    WorkerObject,         \* DriverUnload local: reference held
    bugcheck              \* the system has halted on a fault

entryVars == <<lpc, Status, CreatedSymbolicLink, returnStatus>>
hostVars == <<device, link, deviceDeletes, linkDeletes>>
extVars == <<extUnload, WorkerHandle, MonitorThreadHandle>>
workerVars == <<wpc, wStatus, IsExiting, TimeStamp, iter, wcpu, wAssert, MonitorThreadObject>>
cellVars == <<TestVariable, armed, triggered, writeLog>>
monitorVars == <<mpc, MostRecentRead, Previous, InterruptsEnabled, spurious, mcpu, mAssert, samples, reports>>
unloadVars == <<upc, uStatus, WorkerObject>>

vars == <<entryVars, hostVars, extVars, workerVars, cellVars, monitorVars, unloadVars, bugcheck>>

Init ==
    /\ lpc = "create_device"
    /\ Status = STATUS_SUCCESS
    /\ CreatedSymbolicLink = FALSE
    /\ returnStatus = STATUS_SUCCESS
    /\ device = "none"
    /\ link = "none"
    /\ deviceDeletes = 0
    /\ linkDeletes = 0
    /\ extUnload = FALSE
    /\ WorkerHandle = "null"
    /\ MonitorThreadHandle = "null"
    /\ wpc = "none"
    /\ wStatus = STATUS_SUCCESS
    /\ IsExiting = FALSE
    /\ TimeStamp = Zero
    /\ iter = 0
    /\ wcpu = 0
    /\ wAssert = "none"
    /\ MonitorThreadObject = FALSE
    /\ TestVariable = Zero
    /\ armed = FALSE
    /\ triggered = FALSE
    /\ writeLog = <<>>
    /\ mpc = "none"
    /\ MostRecentRead = Zero
    /\ Previous = Zero
    /\ InterruptsEnabled = TRUE
    /\ spurious = 0
    /\ mcpu = 0
    /\ mAssert = "none"
    /\ samples = <<>>
    /\ reports = <<>>
    /\ upc = "idle"
    /\ uStatus = STATUS_SUCCESS
    /\ WorkerObject = FALSE
    /\ bugcheck = FALSE


(* ---------------------------- DriverEntry ------------------------------ *)

\* IoDeleteSymbolicLink( &mw::SYMLINK_NAME )
DeleteLink ==
    /\ link' = "deleted"
    /\ linkDeletes' = linkDeletes + 1

\* IoDeleteDevice( Device )
DeleteDevice ==
    /\ device' = "deleted"
    /\ deviceDeletes' = deviceDeletes + 1

EntryCreateDevice ==
    /\ ~bugcheck
    /\ lpc = "create_device"
    /\ \E st \in HostStatuses :
        /\ Status' = st
        /\ device' = IF NT_SUCCESS(st) THEN "created" ELSE device
        /\ lpc' = IF NT_SUCCESS(st) THEN "create_symlink" ELSE "unwind"
    /\ UNCHANGED <<CreatedSymbolicLink, returnStatus, link, deviceDeletes, linkDeletes>>
    /\ UNCHANGED <<extVars, workerVars, cellVars, monitorVars, unloadVars, bugcheck>>

EntryCreateSymbolicLink ==
    /\ ~bugcheck
    /\ lpc = "create_symlink"
    /\ \E st \in HostStatuses :
        /\ Status' = st
        /\ CreatedSymbolicLink' = NT_SUCCESS(st)
        /\ link' = IF NT_SUCCESS(st) THEN "created" ELSE link
        /\ lpc' = IF NT_SUCCESS(st) THEN "init" ELSE "unwind"
    /\ UNCHANGED <<returnStatus, device, deviceDeletes, linkDeletes>>
    /\ UNCHANGED <<extVars, workerVars, cellVars, monitorVars, unloadVars, bugcheck>>

\* if ( !NT_SUCCESS( Status ) ) { ...; return Status; }
EntryUnwind ==
    /\ ~bugcheck
    /\ lpc = "unwind"
    /\ IF CreatedSymbolicLink THEN DeleteLink ELSE UNCHANGED <<link, linkDeletes>>
    /\ IF device = "created" THEN DeleteDevice ELSE UNCHANGED <<device, deviceDeletes>>
    /\ returnStatus' = Status
    /\ lpc' = "returned"
    /\ UNCHANGED <<Status, CreatedSymbolicLink>>
    /\ UNCHANGED <<extVars, workerVars, cellVars, monitorVars, unloadVars, bugcheck>>

\* memset, Ext->Self, KeInitializeEvent, dispatch table, MonitoredAddress
EntryInit ==
    /\ ~bugcheck
    /\ lpc = "init"
    /\ extUnload' = FALSE
    /\ WorkerHandle' = "null"
    /\ MonitorThreadHandle' = "null"
    /\ lpc' = "create_worker"
    /\ UNCHANGED <<Status, CreatedSymbolicLink, returnStatus>>
    /\ UNCHANGED <<hostVars, workerVars, cellVars, monitorVars, unloadVars, bugcheck>>

\* PsCreateSystemThread( &Ext->WorkerHandle, ..., Worker, Ext )
EntryCreateWorker ==
    /\ ~bugcheck
    /\ lpc = "create_worker"
    /\ \E st \in HostStatuses, c \in Cpus :
        /\ Status' = st
        /\ IF NT_SUCCESS(st)
           THEN /\ WorkerHandle' = "open"
                /\ wpc' = "affinity"
                /\ wcpu' = c
           ELSE UNCHANGED <<WorkerHandle, wpc, wcpu>>
    /\ lpc' = "check_worker"
    /\ UNCHANGED <<CreatedSymbolicLink, returnStatus, extUnload, MonitorThreadHandle>>
    /\ UNCHANGED <<wStatus, IsExiting, TimeStamp, iter, wAssert, MonitorThreadObject>>
    /\ UNCHANGED <<hostVars, cellVars, monitorVars, unloadVars, bugcheck>>

\* if ( !NT_SUCCESS( Status ) ) { delete link and device } return STATUS_SUCCESS;
EntryReturn ==
    /\ ~bugcheck
    /\ lpc = "check_worker"
    /\ IF ~NT_SUCCESS(Status)
       THEN DeleteLink /\ DeleteDevice
       ELSE UNCHANGED hostVars
    /\ returnStatus' = STATUS_SUCCESS
    /\ lpc' = "returned"
    /\ UNCHANGED <<Status, CreatedSymbolicLink>>
    /\ UNCHANGED <<extVars, workerVars, cellVars, monitorVars, unloadVars, bugcheck>>

DriverEntry ==
    \/ EntryCreateDevice
    \/ EntryCreateSymbolicLink
    \/ EntryUnwind
    \/ EntryInit
    \/ EntryCreateWorker
    \/ EntryReturn

\* The driver stays loaded exactly when DriverEntry returned a success status.
Loaded == lpc = "returned" /\ NT_SUCCESS(returnStatus)


(* ------------------------------- Worker -------------------------------- *)

WorkerAlive == wpc \notin {"none", "done"}

MonitorAlive == mpc \notin {"none", "done"}

\* A store to the monitored cell: it trips the monitor hardware when armed.
Store(v) ==
    /\ TestVariable' = v
    /\ triggered' = (triggered \/ armed)
    /\ writeLog' = Append(writeLog, v)
    /\ UNCHANGED armed

\* KeSetSystemAffinityThread( mw::WORKER_THREAD_CPU_AFFINITY ); NT_ASSERT( ... )
WorkerAffinity ==
    /\ ~bugcheck
    /\ wpc = "affinity"
    /\ \E c \in AffinityTargets(WORKER_THREAD_CPU_AFFINITY, wcpu) :
        /\ wcpu' = c
        /\ wAssert' = IF c # WORKER_THREAD_CPU_AFFINITY THEN "passed" ELSE "failed"
    /\ wpc' = "create_monitor"
    /\ UNCHANGED <<wStatus, IsExiting, TimeStamp, iter, MonitorThreadObject>>
    /\ UNCHANGED <<entryVars, hostVars, extVars, cellVars, monitorVars, unloadVars, bugcheck>>

\* PsCreateSystemThread( &Ext->MonitorThreadHandle, ..., Monitor, &Ext->MonitorContext )
WorkerCreateMonitor ==
    /\ ~bugcheck
    /\ wpc = "create_monitor"
    /\ \E st \in HostStatuses, c \in Cpus :
        /\ wStatus' = st
        /\ IF NT_SUCCESS(st)
           THEN /\ MonitorThreadHandle' = "open"
                /\ mpc' = "start"
                /\ mcpu' = c
           ELSE UNCHANGED <<MonitorThreadHandle, mpc, mcpu>>
    /\ wpc' = "check_status"
    /\ UNCHANGED <<IsExiting, TimeStamp, iter, wcpu, wAssert, MonitorThreadObject>>
    /\ UNCHANGED <<extUnload, WorkerHandle>>
    /\ UNCHANGED <<MostRecentRead, Previous, InterruptsEnabled, spurious, mAssert, samples, reports>>
    /\ UNCHANGED <<entryVars, hostVars, cellVars, unloadVars, bugcheck>>

\* WorkerCheckStatus without the return on failure.
WorkerCheckStatusNoReturn ==
    /\ ~bugcheck
    /\ wpc = "check_status"
    /\ wpc' = "poll"
    /\ UNCHANGED <<wStatus, IsExiting, TimeStamp, iter, wcpu, wAssert, MonitorThreadObject>>
    /\ UNCHANGED <<entryVars, hostVars, extVars, cellVars, monitorVars, unloadVars, bugcheck>>

\* if ( !NT_SUCCESS( Status ) ) { logmsg; return; }
WorkerCheckStatus ==
    /\ ~bugcheck
    /\ wpc = "check_status"
    /\ wpc' = IF NT_SUCCESS(wStatus) THEN "poll" ELSE "done"
    /\ UNCHANGED <<wStatus, IsExiting, TimeStamp, iter, wcpu, wAssert, MonitorThreadObject>>
    /\ UNCHANGED <<entryVars, hostVars, extVars, cellVars, monitorVars, unloadVars, bugcheck>>

\* ExitRequested with the wait's status tested by NT_SUCCESS, which
\* STATUS_TIMEOUT passes too.
ExitRequestedNtSuccess(st) == NT_SUCCESS(st)

\* ... == STATUS_SUCCESS
ExitRequested(st) == st = STATUS_SUCCESS

\* IsExiting = ( KeWaitForSingleObject( &Ext->Unload, ..., &mw::NoSleep ) == STATUS_SUCCESS )
WorkerPoll ==
    /\ ~bugcheck
    /\ wpc = "poll"
    /\ extUnload \/ iter < MaxIter
    /\ IsExiting' = ExitRequested(PollEvent(extUnload))
    /\ wpc' = "test_exit"
    /\ UNCHANGED <<wStatus, TimeStamp, iter, wcpu, wAssert, MonitorThreadObject>>
    /\ UNCHANGED <<entryVars, hostVars, extVars, cellVars, monitorVars, unloadVars, bugcheck>>

\* WorkerExit without the break: the body goes on to the counter write.
WorkerExitFallsThrough ==
    /\ ~bugcheck
    /\ wpc = "test_exit"
    /\ IsExiting
    /\ Store(MAGIC)
    /\ \E ts \in TimeStamps : TimeStamp' = ts
    /\ wpc' = "maybe_write"
    /\ UNCHANGED <<wStatus, IsExiting, iter, wcpu, wAssert, MonitorThreadObject>>
    /\ UNCHANGED <<entryVars, hostVars, extVars, monitorVars, unloadVars, bugcheck>>

\* if ( IsExiting ) { *MonitoredAddress = mw::MAGIC; break; }
WorkerExit ==
    /\ ~bugcheck
    /\ wpc = "test_exit"
    /\ IsExiting
    /\ Store(MAGIC)
    /\ wpc' = "lookup"
    /\ UNCHANGED <<wStatus, IsExiting, TimeStamp, iter, wcpu, wAssert, MonitorThreadObject>>
    /\ UNCHANGED <<entryVars, hostVars, extVars, monitorVars, unloadVars, bugcheck>>

\* const auto TimeStamp = __rdtsc ( );
WorkerStamp ==
    /\ ~bugcheck
    /\ wpc = "test_exit"
    /\ ~IsExiting
    /\ \E ts \in TimeStamps : TimeStamp' = ts
    /\ wpc' = "maybe_write"
    /\ UNCHANGED <<wStatus, IsExiting, iter, wcpu, wAssert, MonitorThreadObject>>
    /\ UNCHANGED <<entryVars, hostVars, extVars, cellVars, monitorVars, unloadVars, bugcheck>>

\* WorkerMaybeWrite without the test of the low byte: every time stamp is stored.
WorkerMaybeWriteAlways ==
    /\ ~bugcheck
    /\ wpc = "maybe_write"
    /\ Store(TimeStamp)
    /\ wpc' = "sleep"
    /\ UNCHANGED <<wStatus, IsExiting, TimeStamp, iter, wcpu, wAssert, MonitorThreadObject>>
    /\ UNCHANGED <<entryVars, hostVars, extVars, monitorVars, unloadVars, bugcheck>>

\* if ( ( TimeStamp & 0xff ) == 0 ) { *MonitoredAddress = TimeStamp; }
WorkerMaybeWrite ==
    /\ ~bugcheck
    /\ wpc = "maybe_write"
    /\ IF LowByte(TimeStamp) = 0
       THEN Store(TimeStamp)
       ELSE UNCHANGED cellVars
    /\ wpc' = "sleep"
    /\ UNCHANGED <<wStatus, IsExiting, TimeStamp, iter, wcpu, wAssert, MonitorThreadObject>>
    /\ UNCHANGED <<entryVars, hostVars, extVars, monitorVars, unloadVars, bugcheck>>

\* KeDelayExecutionThread( KernelMode, false, &mw::Sleep );
WorkerSleep ==
    /\ ~bugcheck
    /\ wpc = "sleep"
    /\ iter' = iter + 1
    /\ TimeStamp' = Zero          \* the local goes out of scope with the body
    /\ wpc' = "poll"
    /\ UNCHANGED <<wStatus, IsExiting, wcpu, wAssert, MonitorThreadObject>>
    /\ UNCHANGED <<entryVars, hostVars, extVars, cellVars, monitorVars, unloadVars, bugcheck>>

\* Status = PsLookupThreadByThreadId( Ext->MonitorCid.UniqueThread, &MonitorThreadObject );
WorkerLookup ==
    /\ ~bugcheck
    /\ wpc = "lookup"
    /\ \E st \in HostStatuses :
        /\ wStatus' = st
        /\ MonitorThreadObject' = NT_SUCCESS(st)
        /\ wpc' = IF NT_SUCCESS(st) THEN "wait" ELSE "done"
    /\ UNCHANGED <<IsExiting, TimeStamp, iter, wcpu, wAssert>>
    /\ UNCHANGED <<entryVars, hostVars, extVars, cellVars, monitorVars, unloadVars, bugcheck>>

\* KeWaitForSingleObject( MonitorThreadObject, ..., nullptr ): until the thread ends
WorkerWait ==
    /\ ~bugcheck
    /\ wpc = "wait"
    /\ mpc = "done"
    /\ wpc' = "release"
    /\ UNCHANGED <<wStatus, IsExiting, TimeStamp, iter, wcpu, wAssert, MonitorThreadObject>>
    /\ UNCHANGED <<entryVars, hostVars, extVars, cellVars, monitorVars, unloadVars, bugcheck>>

\* ZwClose( Ext->MonitorThreadHandle ); ObfDereferenceObject( MonitorThreadObject );
WorkerRelease ==
    /\ ~bugcheck
    /\ wpc = "release"
    /\ MonitorThreadHandle' = "closed"
    /\ MonitorThreadObject' = FALSE
    /\ wpc' = "done"
    /\ UNCHANGED <<wStatus, IsExiting, TimeStamp, iter, wcpu, wAssert>>
    /\ UNCHANGED <<extUnload, WorkerHandle>>
    /\ UNCHANGED <<entryVars, hostVars, cellVars, monitorVars, unloadVars, bugcheck>>

Worker ==
    \/ WorkerAffinity
    \/ WorkerCreateMonitor
    \/ WorkerCheckStatus
    \/ WorkerPoll
    \/ WorkerExit
    \/ WorkerStamp
    \/ WorkerMaybeWrite
    \/ WorkerSleep
    \/ WorkerLookup
    \/ WorkerWait
    \/ WorkerRelease


(* ------------------------------- Monitor ------------------------------- *)

\* StoreDetected with the comparison dropped: every wakeup is reported.
StoreDetectedAlways(prev, cur) == TRUE

\* if ( Previous != MostRecentRead )
StoreDetected(prev, cur) == prev # cur

\* IsSentinel that takes any non-zero sample for the sentinel.
IsSentinelNonZero(v) == v # Zero

\* IsSentinel against the constant truncated to 32 bits (0xEEFFEEFF).
IsSentinelTruncated(v) == v = <<0, 0, 61183, 61183>>

\* if ( MostRecentRead == mw::MAGIC )
IsSentinel(v) == v = MAGIC

\* MonitorStart with MostRecentRead left holding a stale non-zero value.
MonitorStartStale ==
    /\ ~bugcheck
    /\ mpc = "start"
    /\ MostRecentRead' = Word(256)
    /\ mpc' = "affinity"
    /\ UNCHANGED <<Previous, InterruptsEnabled, spurious, mcpu, mAssert, samples, reports>>
    /\ UNCHANGED <<entryVars, hostVars, extVars, workerVars, cellVars, unloadVars, bugcheck>>

\* Address = Context->MonitoredAddress; ULONG64 MostRecentRead = 0llu;
MonitorStart ==
    /\ ~bugcheck
    /\ mpc = "start"
    /\ MostRecentRead' = Zero
    /\ mpc' = "affinity"
    /\ UNCHANGED <<Previous, InterruptsEnabled, spurious, mcpu, mAssert, samples, reports>>
    /\ UNCHANGED <<entryVars, hostVars, extVars, workerVars, cellVars, unloadVars, bugcheck>>

\* KeSetSystemAffinityThread( mw::MONITOR_THREAD_CPU_AFFINITY ); NT_ASSERT( ... )
MonitorAffinity ==
    /\ ~bugcheck
    /\ mpc = "affinity"
    /\ \E c \in AffinityTargets(MONITOR_THREAD_CPU_AFFINITY, mcpu) :
        /\ mcpu' = c
        /\ mAssert' = IF c # MONITOR_THREAD_CPU_AFFINITY THEN "passed" ELSE "failed"
    /\ mpc' = "guard"
    /\ UNCHANGED <<MostRecentRead, Previous, InterruptsEnabled, spurious, samples, reports>>
    /\ UNCHANGED <<entryVars, hostVars, extVars, workerVars, cellVars, unloadVars, bugcheck>>

\* volatile INTERRUPT_GUARD _ { };  ( _disable )   Start = __rdtsc ( );
MonitorGuard ==
    /\ ~bugcheck
    /\ mpc = "guard"
    /\ InterruptsEnabled' = FALSE
    /\ mpc' = "monitor"
    /\ UNCHANGED <<MostRecentRead, Previous, spurious, mcpu, mAssert, samples, reports>>
    /\ UNCHANGED <<entryVars, hostVars, extVars, workerVars, cellVars, unloadVars, bugcheck>>

\* _mm_monitor( Address, 0, 0 ): arm the hardware on the cell's line
MonitorArm ==
    /\ ~bugcheck
    /\ mpc = "monitor"
    /\ armed' = TRUE
    /\ triggered' = FALSE
    /\ mpc' = "mwait"
    /\ UNCHANGED <<TestVariable, writeLog>>
    /\ UNCHANGED <<MostRecentRead, Previous, InterruptsEnabled, spurious, mcpu, mAssert, samples, reports>>
    /\ UNCHANGED <<entryVars, hostVars, extVars, workerVars, unloadVars, bugcheck>>

\* _mm_mwait( 0, 0 ) returns because a store hit the armed line
MonitorMwaitStore ==
    /\ ~bugcheck
    /\ mpc = "mwait"
    /\ armed /\ triggered
    /\ armed' = FALSE
    /\ triggered' = FALSE
    /\ mpc' = "sample"
    /\ UNCHANGED <<TestVariable, writeLog>>
    /\ UNCHANGED <<MostRecentRead, Previous, InterruptsEnabled, spurious, mcpu, mAssert, samples, reports>>
    /\ UNCHANGED <<entryVars, hostVars, extVars, workerVars, unloadVars, bugcheck>>

\* _mm_mwait( 0, 0 ) exits early (reset, NMI, SMI, INIT ...) with no store
MonitorMwaitEarly ==
    /\ ~bugcheck
    /\ mpc = "mwait"
    /\ ~triggered
    /\ spurious < MaxSpurious
    /\ spurious' = spurious + 1
    /\ armed' = FALSE
    /\ mpc' = "sample"
    /\ UNCHANGED <<TestVariable, triggered, writeLog>>
    /\ UNCHANGED <<MostRecentRead, Previous, InterruptsEnabled, mcpu, mAssert, samples, reports>>
    /\ UNCHANGED <<entryVars, hostVars, extVars, workerVars, unloadVars, bugcheck>>

\* MonitorSample that clears the cell after reading it.
MonitorSampleClears ==
    /\ ~bugcheck
    /\ mpc = "sample"
    /\ Previous' = MostRecentRead
    /\ MostRecentRead' = TestVariable
    /\ samples' = Append(samples, [val |-> TestVariable, at |-> Len(writeLog)])
    /\ TestVariable' = Zero
    /\ mpc' = "report"
    /\ UNCHANGED <<armed, triggered, writeLog>>
    /\ UNCHANGED <<InterruptsEnabled, spurious, mcpu, mAssert, reports>>
    /\ UNCHANGED <<entryVars, hostVars, extVars, workerVars, unloadVars, bugcheck>>

\* Previous = MostRecentRead; MostRecentRead = *Address;
MonitorSample ==
    /\ ~bugcheck
    /\ mpc = "sample"
    /\ Previous' = MostRecentRead
    /\ MostRecentRead' = TestVariable
    /\ samples' = Append(samples, [val |-> TestVariable, at |-> Len(writeLog)])
    /\ mpc' = "report"
    /\ UNCHANGED <<InterruptsEnabled, spurious, mcpu, mAssert, reports>>
    /\ UNCHANGED <<entryVars, hostVars, extVars, workerVars, cellVars, unloadVars, bugcheck>>

\* MonitorReport that logs the cell read again instead of MostRecentRead.
MonitorReportRereads ==
    /\ ~bugcheck
    /\ mpc = "report"
    /\ reports' = IF StoreDetected(Previous, MostRecentRead)
                  THEN Append(reports, [prev |-> Previous, new |-> TestVariable,
                                        sample |-> Len(samples)])
                  ELSE reports
    /\ mpc' = "check"
    /\ UNCHANGED <<MostRecentRead, Previous, InterruptsEnabled, spurious, mcpu, mAssert, samples>>
    /\ UNCHANGED <<entryVars, hostVars, extVars, workerVars, cellVars, unloadVars, bugcheck>>

\* if ( Previous != MostRecentRead ) { logmsg( "Store detected ..." ); }
MonitorReport ==
    /\ ~bugcheck
    /\ mpc = "report"
    /\ reports' = IF StoreDetected(Previous, MostRecentRead)
                  THEN Append(reports, [prev |-> Previous, new |-> MostRecentRead,
                                        sample |-> Len(samples)])
                  ELSE reports
    /\ mpc' = "check"
    /\ UNCHANGED <<MostRecentRead, Previous, InterruptsEnabled, spurious, mcpu, mAssert, samples>>
    /\ UNCHANGED <<entryVars, hostVars, extVars, workerVars, cellVars, unloadVars, bugcheck>>

\* if ( MostRecentRead == mw::MAGIC ) break;   end of the body: ~INTERRUPT_GUARD
MonitorCheck ==
    /\ ~bugcheck
    /\ mpc = "check"
    /\ mpc' = IF IsSentinel(MostRecentRead) THEN "done" ELSE "guard"
    /\ InterruptsEnabled' = TRUE
    /\ Previous' = Zero           \* the local goes out of scope with the body
    /\ UNCHANGED <<MostRecentRead, spurious, mcpu, mAssert, samples, reports>>
    /\ UNCHANGED <<entryVars, hostVars, extVars, workerVars, cellVars, unloadVars, bugcheck>>

\* The Monitor's steps other than an early exit of the wait.
MonitorRun ==
    \/ MonitorStart
    \/ MonitorAffinity
    \/ MonitorGuard
    \/ MonitorArm
    \/ MonitorMwaitStore
    \/ MonitorSample
    \/ MonitorReport
    \/ MonitorCheck

Monitor ==
    \/ MonitorRun
    \/ MonitorMwaitEarly

(* ----------------------------- DriverUnload ---------------------------- *)

\* UnloadStart without the KeSetEvent.
UnloadStartNoSignal ==
    /\ ~bugcheck
    /\ Loaded
    /\ upc = "idle"
    /\ IF device = "created"
       THEN /\ upc' = "lookup"
            /\ UNCHANGED bugcheck
       ELSE /\ bugcheck' = TRUE
            /\ upc' = "faulted"
    /\ UNCHANGED <<extUnload, WorkerHandle, MonitorThreadHandle, uStatus, WorkerObject>>
    /\ UNCHANGED <<entryVars, hostVars, workerVars, cellVars, monitorVars>>

\* Device = DriverObject->DeviceObject; Ext = Device->DeviceExtension;
\* KeSetEvent( &Ext->Unload, 0, false );
\* With no device left (DriverEntry deleted it) Device is null and the read
\* of Device->DeviceExtension faults.
UnloadStart ==
    /\ ~bugcheck
    /\ Loaded
    /\ upc = "idle"
    /\ IF device = "created"
       THEN /\ extUnload' = TRUE
            /\ upc' = "lookup"
            /\ UNCHANGED bugcheck
       ELSE /\ bugcheck' = TRUE
            /\ upc' = "faulted"
            /\ UNCHANGED extUnload
    /\ UNCHANGED <<WorkerHandle, MonitorThreadHandle, uStatus, WorkerObject>>
    /\ UNCHANGED <<entryVars, hostVars, workerVars, cellVars, monitorVars>>

\* UnloadLookup that goes on to the wait whatever the lookup returned.
UnloadLookupAlwaysWaits ==
    /\ ~bugcheck
    /\ upc = "lookup"
    /\ \E st \in HostStatuses :
        /\ uStatus' = st
        /\ WorkerObject' = NT_SUCCESS(st)
        /\ upc' = "wait"
    /\ UNCHANGED <<entryVars, hostVars, extVars, workerVars, cellVars, monitorVars, bugcheck>>

\* Status = PsLookupThreadByThreadId( Ext->WorkerCid.UniqueThread, &WorkerObject );
UnloadLookup ==
    /\ ~bugcheck
    /\ upc = "lookup"
    /\ \E st \in HostStatuses :
        /\ uStatus' = st
        /\ WorkerObject' = NT_SUCCESS(st)
        /\ upc' = IF NT_SUCCESS(st) THEN "wait" ELSE "delete_link"
    /\ UNCHANGED <<entryVars, hostVars, extVars, workerVars, cellVars, monitorVars, bugcheck>>

\* KeWaitForSingleObject( WorkerObject, ..., nullptr ): until the thread ends
UnloadWait ==
    /\ ~bugcheck
    /\ upc = "wait"
    /\ wpc = "done"
    /\ upc' = "release"
    /\ UNCHANGED <<uStatus, WorkerObject>>
    /\ UNCHANGED <<entryVars, hostVars, extVars, workerVars, cellVars, monitorVars, bugcheck>>

\* ZwClose( Ext->WorkerHandle ); ObfDereferenceObject( WorkerObject );
UnloadRelease ==
    /\ ~bugcheck
    /\ upc = "release"
    /\ WorkerHandle' = "closed"
    /\ WorkerObject' = FALSE
    /\ upc' = "delete_link"
    /\ UNCHANGED <<extUnload, MonitorThreadHandle, uStatus>>
    /\ UNCHANGED <<entryVars, hostVars, workerVars, cellVars, monitorVars, bugcheck>>

\* IoDeleteSymbolicLink( &mw::SYMLINK_NAME );
UnloadDeleteLink ==
    /\ ~bugcheck
    /\ upc = "delete_link"
    /\ DeleteLink
    /\ upc' = "delete_device"
    /\ UNCHANGED <<device, deviceDeletes, uStatus, WorkerObject>>
    /\ UNCHANGED <<entryVars, extVars, workerVars, cellVars, monitorVars, bugcheck>>

\* IoDeleteDevice( Device ); return
UnloadDeleteDevice ==
    /\ ~bugcheck
    /\ upc = "delete_device"
    /\ DeleteDevice
    /\ upc' = "done"
    /\ UNCHANGED <<link, linkDeletes, uStatus, WorkerObject>>
    /\ UNCHANGED <<entryVars, extVars, workerVars, cellVars, monitorVars, bugcheck>>

\* DriverUnload's steps once the host has called it.
UnloadRun ==
    \/ UnloadLookup
    \/ UnloadWait
    \/ UnloadRelease
    \/ UnloadDeleteLink
    \/ UnloadDeleteDevice

DriverUnload ==
    \/ UnloadStart
    \/ UnloadRun

\* A thread still running after IoDeleteDevice freed the device extension
\* (and the image is being unloaded) touches freed memory: it either goes on
\* with the stale contents (its ordinary steps) or faults, halting the system.
UseAfterUnload ==
    /\ ~bugcheck
    /\ device = "deleted"
    /\ WorkerAlive \/ MonitorAlive
    /\ bugcheck' = TRUE
    /\ UNCHANGED <<entryVars, hostVars, extVars, workerVars, cellVars, monitorVars, unloadVars>>

(* --------------------------- specifications ---------------------------- *)

Next ==
    \/ DriverEntry
    \/ Worker
    \/ Monitor
    \/ DriverUnload
    \/ UseAfterUnload

Spec == Init /\ [][Next]_vars

\* Each thread that can take a step eventually takes one.  An early exit of
\* the wait, the host's decision to unload and a fault on freed memory are
\* never forced.
FairSpec ==
    /\ Spec
    /\ WF_vars(DriverEntry)
    /\ WF_vars(Worker)
    /\ WF_vars(MonitorRun)
    /\ WF_vars(UnloadRun)


(* ------------------------------ properties ----------------------------- *)

RunningPcs == {"poll", "test_exit", "maybe_write", "sleep"}

ShutdownComplete == mpc = "done" /\ wpc = "done" /\ upc = "done"

LastSample == samples[Len(samples)]

\* C1: once the Worker has written the sentinel, the Monitor samples it and
\* terminates, the Worker's join completes and unload returns.  Stated for
\* the executions the claim is most favourable to: those in which no
\* thread-identity lookup fails and nothing faults.
C1_SentinelLeadsToShutdown ==
    (TestVariable = MAGIC)
        ~> (ShutdownComplete \/ bugcheck \/ ~NT_SUCCESS(wStatus) \/ ~NT_SUCCESS(uStatus))

\* C2: the device is deleted, and unload returns, only when neither the
\* Worker nor the Monitor thread is still running.
C2_TeardownAfterThreads ==
    (device = "deleted" \/ upc = "done") => (~WorkerAlive /\ ~MonitorAlive)

\* Order of the Monitor's positions after a sample.
MonitorRank(pc) == CASE pc = "report" -> 1 [] pc = "check" -> 2 [] pc = "done" -> 3 [] OTHER -> 0

\* C3: after a sample equal to the sentinel the Monitor only reports, tests
\* and terminates: it never arms, waits or samples again.
C3_SentinelSampleIsLast ==
    [][ (Len(samples) > 0 /\ LastSample.val = MAGIC)
          => /\ samples' = samples
             /\ armed' = armed
             /\ MonitorRank(mpc') >= MonitorRank(mpc)
             /\ MonitorRank(mpc') > 0
             /\ (mpc = "check" /\ mpc' # mpc => mpc' = "done") ]_vars

C3_Witness == mpc = "done" /\ Len(samples) > 1 /\ LastSample.val = MAGIC

\* C4: whenever the cell holds the sentinel, the unload event has been set
\* and the Worker's zero-timeout check has observed it.
C4_SentinelAfterUnloadObserved ==
    (TestVariable = MAGIC \/ \E i \in 1..Len(writeLog) : writeLog[i] = MAGIC)
        => (extUnload /\ IsExiting /\ wpc \notin RunningPcs)

C4_Witness == TestVariable = MAGIC /\ iter > 0

\* The value of the sample before sample i (0 before the first).
PrevSample(i) == IF i = 1 THEN Zero ELSE samples[i - 1].val

\* Samples whose report step has been taken.
Processed == IF mpc = "report" THEN Len(samples) - 1 ELSE Len(samples)

\* The processed samples that differ from the sample before them.
Changed == {i \in 1..Processed : PrevSample(i) # samples[i].val}

\* C5: the reports are exactly the samples that differ from the preceding
\* sample (0 before the first), one report each, in order, carrying
\* (previous, current); an unchanged sample yields no report; the first
\* report has previous value 0.
C5_ReportOnChange ==
    /\ Len(reports) = Cardinality(Changed)
    /\ \A r \in 1..Len(reports) :
        /\ reports[r].sample \in Changed
        /\ reports[r].prev = PrevSample(reports[r].sample)
        /\ reports[r].new = samples[reports[r].sample].val
    /\ \A r \in 1..(Len(reports) - 1) : reports[r].sample < reports[r + 1].sample
    /\ (Len(reports) > 0 => reports[1].prev = Zero)

C5_Witness ==
    /\ mpc = "check"
    /\ Len(reports) = 2
    /\ \E i \in 1..Len(samples) : PrevSample(i) = samples[i].val

\* C6: a step of the Monitor, of DriverEntry or of DriverUnload never stores
\* to the monitored cell.
C6_OnlyWorkerWrites ==
    [][ (mpc' # mpc \/ lpc' # lpc \/ upc' # upc)
          => (TestVariable' = TestVariable /\ writeLog' = writeLog) ]_vars

C6_Witness == mpc = "done" /\ upc = "done" /\ Len(reports) = 2 /\ TestVariable = MAGIC

\* DriverEntry has returned after PsCreateSystemThread failed for the Worker.
WorkerCreateFailed == lpc = "returned" /\ CreatedSymbolicLink /\ ~NT_SUCCESS(Status)

\* C7: when creating the Worker thread fails, DriverEntry deletes the link
\* and the device and returns a failure status.
C7_WorkerFailureReported ==
    WorkerCreateFailed
        => (link = "deleted" /\ device = "deleted" /\ ~NT_SUCCESS(returnStatus))

\* The Worker is past PsCreateSystemThread and no Monitor thread exists.
MonitorCreateFailed == mpc = "none" /\ wpc \notin {"none", "affinity", "create_monitor"}

\* C8: when creating the Monitor thread fails the Worker returns at once: it
\* never polls the unload event, never stores to the cell and never looks
\* the Monitor up.
C8_NoRunningWithoutMonitor ==
    MonitorCreateFailed
        => /\ wpc \in {"check_status", "done"}
           /\ ~NT_SUCCESS(wStatus)
           /\ writeLog = <<>>
           /\ TestVariable = Zero
           /\ ~IsExiting
           /\ iter = 0
           /\ ~MonitorThreadObject

C8_Witness == MonitorCreateFailed /\ wpc = "done" /\ upc = "done"

\* C9: once the unload event is set with the Worker in its Running loop, the
\* Worker eventually stores the sentinel and leaves the loop; and having
\* observed the event it does no counter write.
C9_UnloadLeadsToSentinel ==
    /\ (extUnload /\ wpc \in RunningPcs) ~> (TestVariable = MAGIC /\ wpc \notin RunningPcs)
    /\ [](IsExiting => wpc \notin {"maybe_write", "sleep"})

\* The sample report r was made from.
SampleOf(r) == samples[reports[r].sample]

\* C10: every report carries, as its new value, the latest value stored
\* before the sample it was made from, also when several stores landed
\* since the sample before: the stores in between are never what a report
\* carries.
C10_ReportCarriesLatestWrite ==
    \A r \in 1..Len(reports) :
        /\ SampleOf(r).at > 0
        /\ reports[r].new = writeLog[SampleOf(r).at]

C10_Witness ==
    \E r \in 1..Len(reports) :
        LET i == reports[r].sample
            before == IF i = 1 THEN 0 ELSE samples[i - 1].at
        IN  /\ SampleOf(r).at - before >= 2
            /\ writeLog[SampleOf(r).at - 1] # reports[r].new
            /\ writeLog[SampleOf(r).at - 1] # reports[r].prev

\* C11: the sentinel write is the last store to the cell: once the cell
\* holds the sentinel no step stores to it again and it keeps the sentinel;
\* and the Worker is at its lookup, its wait on the Monitor thread or its
\* release only with the sentinel already stored as the latest write.
C11_SentinelWriteIsLast ==
    /\ [][ TestVariable = MAGIC
             => (TestVariable' = MAGIC /\ writeLog' = writeLog) ]_vars
    /\ [](wpc \in {"lookup", "wait", "release"}
             => /\ TestVariable = MAGIC
                /\ Len(writeLog) > 0
                /\ writeLog[Len(writeLog)] = MAGIC
                /\ \A i \in 1..(Len(writeLog) - 1) : writeLog[i] # MAGIC)

C11_Witness ==
    /\ wpc = "wait"
    /\ mpc = "done"
    /\ Len(writeLog) > 1
    /\ TestVariable = MAGIC

\* C12: interrupts are disabled on the Monitor's processor only from just
\* before arming until the wait returns: they are enabled again when the
\* Monitor samples the cell, emits a report and tests for the sentinel.
C12_InterruptsEnabledAfterWait ==
    /\ (mpc \in {"monitor", "mwait"} => ~InterruptsEnabled)
    /\ (mpc \in {"sample", "report", "check"} => InterruptsEnabled)

\* C13: a counter write stores the time stamp only when its low byte is
\* zero, the sentinel's low byte is not zero, so no counter write stores the
\* sentinel: the cell holds the sentinel only after the shutdown write, which
\* the Worker makes having left its Running loop.
C13_CounterNeverSentinel ==
    /\ [][ (wpc = "maybe_write" /\ wpc' = "sleep")
             => IF LowByte(TimeStamp) = 0
                THEN /\ writeLog' = Append(writeLog, TimeStamp)
                     /\ TestVariable' = TimeStamp
                     /\ TestVariable' # MAGIC
                ELSE /\ writeLog' = writeLog
                     /\ TestVariable' = TestVariable ]_vars
    /\ [](LowByte(MAGIC) # 0)
    /\ [](wpc \in RunningPcs
             => /\ TestVariable # MAGIC
                /\ \A i \in 1..Len(writeLog) :
                     LowByte(writeLog[i]) = 0 /\ writeLog[i] # MAGIC)

C13_Witness ==
    /\ wpc = "sleep"
    /\ TimeStamp = MAGIC
    /\ Len(writeLog) > 0
    /\ TestVariable # MAGIC

\* C14: the Monitor terminates only on a sample equal to the sentinel: after
\* a sample that differs from it, changed or unchanged from the sample
\* before, its steps are report, test and back to the head of the loop.
C14_ExitOnlyOnSentinel ==
    /\ [](mpc = "done" => (Len(samples) > 0 /\ LastSample.val = MAGIC))
    /\ [][ (mpc \in {"report", "check"} /\ mpc' # mpc /\ LastSample.val # MAGIC)
             => /\ mpc' = (IF mpc = "report" THEN "check" ELSE "guard")
                /\ samples' = samples ]_vars
    /\ [][ (mpc' = "done" /\ mpc # "done")
             => (mpc = "check" /\ LastSample.val = MAGIC) ]_vars

\* A spurious wakeup gave a second, unchanged sample and the Monitor armed again.
C14_Witness ==
    /\ mpc = "mwait"
    /\ spurious > 0
    /\ Len(samples) > 1
    /\ LastSample.val = PrevSample(Len(samples))
    /\ LastSample.val # Zero

\* Positions of the Monitor inside its loop.
MonitorLoopPcs == {"guard", "monitor", "mwait", "sample", "report", "check"}

\* C15: inside its loop the Monitor runs on a processor of its own mask,
\* which is none of the processors of the Worker's mask; both NT_ASSERTs,
\* once evaluated, have passed; and the Monitor arms and waits on another
\* processor than the one the Worker is pinned to.
C15_MonitorOffWorkerCore ==
    /\ (mpc \in MonitorLoopPcs \cup {"done"}
          => /\ mcpu \in CpusOf(MONITOR_THREAD_CPU_AFFINITY)
             /\ mcpu \notin CpusOf(WORKER_THREAD_CPU_AFFINITY)
             /\ mAssert = "passed")
    /\ (mpc \in {"none", "start", "affinity"} => mAssert = "none")
    /\ (wpc \notin {"none", "affinity"}
          => /\ wAssert = "passed"
             /\ (CpusOf(WORKER_THREAD_CPU_AFFINITY) # {}
                   => wcpu \in CpusOf(WORKER_THREAD_CPU_AFFINITY)))
    /\ (wpc \in {"none", "affinity"} => (wAssert = "none" /\ mpc = "none"))
    /\ ((mpc \in {"monitor", "mwait"} /\ wcpu \in CpusOf(WORKER_THREAD_CPU_AFFINITY))
          => mcpu # wcpu)

C15_Witness ==
    /\ mpc = "mwait"
    /\ wpc \in RunningPcs
    /\ wcpu \in CpusOf(WORKER_THREAD_CPU_AFFINITY)
    /\ mAssert = "passed"
    /\ wAssert = "passed"
    /\ iter > 0

\* Order of DriverUnload's positions.
UnloadRank(pc) ==
    CASE pc = "idle" -> 0 [] pc = "lookup" -> 1 [] pc = "wait" -> 2
      [] pc = "release" -> 3 [] pc = "delete_link" -> 4
      [] pc = "delete_device" -> 5 [] pc = "done" -> 6 [] OTHER -> 7

\* C16: unload sets the event, then waits for the Worker, then releases the
\* Worker's handle and reference, then deletes the link, then the device;
\* the event is set before the wait starts; the device was created before
\* the link.
C16_UnloadOrder ==
    /\ [][ upc' # upc => UnloadRank(upc') > UnloadRank(upc) ]_vars
    /\ [](upc \in {"lookup", "wait", "release", "delete_link", "delete_device", "done"}
             => extUnload)
    /\ [](upc \in {"lookup", "wait", "release", "delete_link"}
             => (link = "created" /\ device = "created"))
    /\ [](upc \in {"idle", "lookup"} => ~WorkerObject)
    /\ [](upc = "release" => (wpc = "done" /\ WorkerObject /\ WorkerHandle = "open"))
    /\ [](WorkerHandle = "closed"
             => (upc \in {"delete_link", "delete_device", "done"} /\ ~WorkerObject))
    /\ [](upc = "delete_device" => (link = "deleted" /\ device = "created"))
    /\ [](upc = "done" => (link = "deleted" /\ device = "deleted"))
    /\ [](link # "none" => device # "none")

C16_Witness ==
    /\ upc = "done"
    /\ WorkerHandle = "closed"
    /\ wpc = "done"
    /\ mpc = "done"
    /\ linkDeletes = 1
    /\ deviceDeletes = 1

\* C17: when the lookup of the thread to join fails, the joiner skips the
\* wait and the release of that thread's handle and reference and goes on:
\* the Worker returns, unload goes on to delete the link and the device, and
\* neither is blocked there.
C17_FailedLookupSkipsJoin ==
    /\ [][ (wpc = "lookup" /\ wpc' # wpc /\ ~NT_SUCCESS(wStatus'))
             => /\ wpc' = "done"
                /\ MonitorThreadHandle' = MonitorThreadHandle
                /\ ~MonitorThreadObject' ]_vars
    /\ [][ (upc = "lookup" /\ upc' # upc /\ ~NT_SUCCESS(uStatus'))
             => /\ upc' = "delete_link"
                /\ WorkerHandle' = WorkerHandle
                /\ ~WorkerObject' ]_vars
    /\ [](~NT_SUCCESS(uStatus)
             => /\ upc \in {"delete_link", "delete_device", "done"}
                /\ WorkerHandle # "closed"
                /\ ~WorkerObject)
    /\ []((~NT_SUCCESS(wStatus) /\ mpc # "none")
             => /\ wpc = "done"
                /\ MonitorThreadHandle = "open"
                /\ ~MonitorThreadObject)
    /\ []((upc = "delete_link" /\ ~bugcheck) => ENABLED UnloadDeleteLink)
    /\ []((upc = "delete_device" /\ ~bugcheck) => ENABLED UnloadDeleteDevice)

\* Both lookups failed and both joiners finished.
C17_Witness ==
    /\ upc = "done"
    /\ ~NT_SUCCESS(uStatus)
    /\ wpc = "done"
    /\ ~NT_SUCCESS(wStatus)
    /\ mpc # "none"

\* C18: the interval the Worker sleeps between Running iterations is a
\* relative one (negative) of 100 ms, that is 100 * 10000 units of 100 ns.
C18_SleepIsHundredMs ==
    wpc = "sleep" => (Sleep < 0 /\ -Sleep = 100 * 10000)

\* C19: over a load and an unload the link and the device are each deleted
\* at most once, and unload never starts on a device DriverEntry has already
\* deleted, also when creating the Worker thread failed.
C19_SingleTeardown ==
    /\ deviceDeletes <= 1
    /\ linkDeletes <= 1
    /\ (upc # "idle" => ~WorkerCreateFailed)
    /\ upc # "faulted"

\* Stores made before the sample preceding sample i (none before the first).
WritesBefore(i) == IF i = 1 THEN 0 ELSE samples[i - 1].at

\* C20: there are never more reports than stores to the cell, and each
\* report was made from a sample with at least one store since the sample
\* before it: a wakeup with no store in between yields no report.
C20_ReportsCausedByWrites ==
    /\ Len(reports) <= Len(writeLog)
    /\ \A r \in 1..Len(reports) :
         SampleOf(r).at > WritesBefore(reports[r].sample)
    /\ \A i \in 1..Processed :
         samples[i].at = WritesBefore(i)
             => \A r \in 1..Len(reports) : reports[r].sample # i

\* After a report, a wakeup with no store in between has been processed.
C20_Witness ==
    /\ mpc = "check"
    /\ Len(reports) > 0
    /\ Len(samples) > 1
    /\ LastSample.at = WritesBefore(Len(samples))

====
